---- MODULE Spec2Model ----
(***************************************************************************)
(* EDAFlow.py: a chain of responsibility of three handlers                 *)
(* (OpenCsvHandler -> CleanDataHandler -> SweetvizHandler) that share one  *)
(* mutable dict `data`, driven by EDAFlow.build_chain / EDAFlow.execute.   *)
(*                                                                         *)
(* Two specifications:                                                     *)
(*   Spec       a client of EDAFlow: build_chain() and execute() in any    *)
(*              order, over a file system chosen in Init;                  *)
(*   StageSpec  a client of one handler: CleanDataHandler.handle or        *)
(*              SweetvizHandler.handle called with an arbitrary dict, and  *)
(*              called again with the dict it returned.                    *)
(*                                                                         *)
(* pandas is modelled at the level the handlers use it: a DataFrame is a   *)
(* dtype per column and a sequence of rows; read_csv, drop_duplicates,     *)
(* isnull, mode, median and fillna are operators below.  The column-wise   *)
(* `df[col].fillna(..., inplace=True)` is modelled as writing through to   *)
(* df, which is what pandas does without copy-on-write.                    *)
(* Numbers are held in halves (Num(3) is 1.5) so that the median of an     *)
(* even count of whole numbers is exact.                                   *)
(***************************************************************************)
EXTENDS Integers, Sequences, FiniteSets, TLC

VARIABLES
    chain,         \* EDAFlow.chain: "None" or the head handler
    next_handler,  \* Handler.next_handler of each handler
    fs,            \* the files the configuration names
    data,          \* the dict passed down the chain
    pc,            \* "idle", the handler whose handle() runs next, "returned", "raised"
    err,           \* the exception the last call raised, "none" if none
    invoked,       \* handlers whose handle() was entered in the current call
    worked,        \* handlers that completed their own work in the current call
    io,            \* file-system operations performed so far
    calls,         \* number of execute() / direct handle() calls so far
    entry,         \* the handler the current call entered the chain at
    ctx0,          \* the dict the current call started with
    prev           \* the dict the previous call returned

vars == <<chain, next_handler, fs, data, pc, err, invoked, worked, io, calls,
          entry, ctx0, prev>>

----------------------------------------------------------------------------
(* Bounds *)

MaxRows == 4        \* rows of a DataFrame handed to a handler directly
MaxCsvRows == 2     \* data lines of the input CSV file
MaxCalls == 2       \* execute() calls / direct handle() calls

----------------------------------------------------------------------------
(* Python values *)

NoHandler == "None"
Handlers == {"OpenCsvHandler", "CleanDataHandler", "SweetvizHandler"}

None == [type |-> "NoneType"]

NaN == [kind |-> "nan", n |-> 0, s |-> ""]
Num(h) == [kind |-> "num", n |-> h, s |-> ""]
Str(t) == [kind |-> "str", n |-> 0, s |-> t]

\* df.columns, in order
Columns == <<"x", "y">>
Cols == {Columns[i] : i \in DOMAIN Columns}

DataFrame(dtypes, rows) == [type |-> "DataFrame", dtypes |-> dtypes, rows |-> rows]

\* data = {}
EmptyDict == [k \in {} |-> None]
\* data.get(k)
Get(d, k) == IF k \in DOMAIN d THEN d[k] ELSE None
\* data[k] = v
Put(d, k, v) == [j \in DOMAIN d \cup {k} |-> IF j = k THEN v ELSE d[j]]

----------------------------------------------------------------------------
(* pandas *)

\* str comparison on the strings of the model, as Python orders them
Lexicographic == <<"1", "2", "a", "b">>
StrRank(t) == CHOOSE i \in DOMAIN Lexicographic : Lexicographic[i] = t

\* the sort key of a non-missing cell
SortKey(v) == IF v.kind = "str" THEN StrRank(v.s) ELSE v.n

\* df[col]
Column(rows, c) == [i \in 1..Len(rows) |-> rows[i][c]]

\* df[col].isnull().any()
AnyNull(col) == \E i \in DOMAIN col : col[i] = NaN

\* Series.dropna()
DropNa(col) == SelectSeq(col, LAMBDA v : v # NaN)

ValueCount(col, v) == Cardinality({i \in DOMAIN col : col[i] = v})

\* df.drop_duplicates(): a row is dropped when an earlier row equals it in
\* every column (missing equals missing); the first occurrence stays
RECURSIVE DropDuplicatesFrom(_, _)
DropDuplicatesFrom(rows, i) ==
    IF i > Len(rows) THEN <<>>
    ELSE (IF \E j \in 1..(i-1) : rows[j] = rows[i] THEN <<>> ELSE <<rows[i]>>)
         \o DropDuplicatesFrom(rows, i+1)

DropDuplicates(rows) == DropDuplicatesFrom(rows, 1)

\* ascending sort of a set of cells of one kind
SortedCells(S) ==
    [i \in 1..Cardinality(S) |->
        CHOOSE v \in S : Cardinality({w \in S : SortKey(w) < SortKey(v)}) = i - 1]

\* Mode with its result left in order of first appearance
Mode_InOrderOfAppearance(col) ==
    LET nn == DropNa(col)
        vals == {nn[i] : i \in DOMAIN nn}
        top == {v \in vals : \A w \in vals : ValueCount(nn, w) <= ValueCount(nn, v)}
    IN  DropDuplicatesFrom(SelectSeq(nn, LAMBDA v : v \in top), 1)

\* Series.mode(): the most frequent non-missing values, sorted ascending
Mode(col) ==
    LET nn == DropNa(col)
        vals == {nn[i] : i \in DOMAIN nn}
        top == {v \in vals : \A w \in vals : ValueCount(nn, w) <= ValueCount(nn, v)}
    IN  SortedCells(top)

\* Median taking the lower of the two middle values of an even count
Median_LowerMiddle(col) ==
    LET nn == DropNa(col)
        srt == SortSeq([i \in DOMAIN nn |-> nn[i].n], LAMBDA a, b : a < b)
        cnt == Len(srt)
    IN  IF cnt = 0 THEN NaN ELSE Num(srt[(cnt + 1) \div 2])

\* Series.median(): NaN when nothing is left after dropping the missing
\* values, else the middle of the sorted values (the mean of the two middle
\* ones for an even count)
Median(col) ==
    LET nn == DropNa(col)
        srt == SortSeq([i \in DOMAIN nn |-> nn[i].n], LAMBDA a, b : a < b)
        cnt == Len(srt)
    IN  IF cnt = 0 THEN NaN
        ELSE IF cnt % 2 = 1 THEN Num(srt[(cnt + 1) \div 2])
        ELSE Num((srt[cnt \div 2] + srt[cnt \div 2 + 1]) \div 2)

\* df[col].fillna(v, inplace=True)
FillNa(rows, c, v) ==
    [i \in 1..Len(rows) |-> IF rows[i][c] = NaN THEN [rows[i] EXCEPT ![c] = v] ELSE rows[i]]

\* the loop `for col in df.columns` from its k-th column on: a column with a
\* missing value is filled with mode()[0] when its dtype is object and with
\* median() otherwise; mode()[0] on an empty result raises KeyError and
\* leaves df as the loop has changed it so far
RECURSIVE FillColumnsFrom(_, _)
FillColumnsFrom(df, k) ==
    IF k > Len(Columns) THEN [exc |-> "none", df |-> df]
    ELSE LET c == Columns[k]
             col == Column(df.rows, c)
         IN  IF ~AnyNull(col) THEN FillColumnsFrom(df, k + 1)
             ELSE IF df.dtypes[c] = "object"
                  THEN IF Len(Mode(col)) = 0
                       THEN [exc |-> "KeyError", df |-> df]
                       ELSE FillColumnsFrom(
                                DataFrame(df.dtypes, FillNa(df.rows, c, Mode(col)[1])), k + 1)
                  ELSE FillColumnsFrom(
                           DataFrame(df.dtypes, FillNa(df.rows, c, Median(col))), k + 1)

\* lines 64-73 of CleanDataHandler.handle on a DataFrame
CleanFrame(df) == FillColumnsFrom(DataFrame(df.dtypes, DropDuplicates(df.rows)), 1)

----------------------------------------------------------------------------
(* Files *)

Digits == {"1", "2"}

\* the number a numeric CSV field denotes
ParseNumber(t) == CASE t = "1" -> 1 [] t = "2" -> 2

\* the dtype pd.read_csv infers for a column from its fields
InferDtype(toks) ==
    IF Len(toks) = 0 THEN "object"
    ELSE IF \A i \in DOMAIN toks : toks[i] \in Digits \cup {""}
         THEN (IF \E i \in DOMAIN toks : toks[i] = "" THEN "float64" ELSE "int64")
         ELSE "object"

\* the cell pd.read_csv makes of a field: an empty field is missing
ParseCell(dtype, t) ==
    IF t = "" THEN NaN
    ELSE IF dtype = "object" THEN Str(t)
    ELSE Num(2 * ParseNumber(t))

\* pd.read_csv(dataset_path) on a file that exists; a file of zero bytes
\* has no header line
ReadCsv(file) ==
    IF ~file.header THEN [exc |-> "EmptyDataError", df |-> None]
    ELSE LET dt == [c \in Cols |-> InferDtype(Column(file.lines, c))]
         IN  [exc |-> "none",
              df |-> DataFrame(dt, [i \in 1..Len(file.lines) |->
                                      [c \in Cols |-> ParseCell(dt[c], file.lines[i][c])]])]

\* os.path.exists(dataset_path)
PathExists(file) == file.exists

----------------------------------------------------------------------------
(* Handler *)

\* Handler.__init__: next_handler = None
NoLinks == [h \in Handlers |-> NoHandler]

\* Handler.set_next(handler)
set_next(links, h, handler) == [links EXCEPT ![h] = handler]

\* Handler.handle, reached by super().handle(data): the next handler's
\* handle() if there is one, else `return data`
Handler_handle(h) ==
    pc' = IF next_handler[h] # NoHandler THEN next_handler[h] ELSE "returned"

\* an exception leaves handle(): nothing up the call stack catches it
Raise(e) == pc' = "raised" /\ err' = e

----------------------------------------------------------------------------
(* The own work of each handler, as a function of what it reads *)

\* OpenCsvWork passing a missing file by instead of raising
OpenCsvWork_IgnoresMissing(d, file) ==
    IF ~PathExists(file)
    THEN [exc |-> "none", data |-> d, ops |-> {"exists(dataset_path)"}]
    ELSE LET r == ReadCsv(file)
         IN  [exc |-> r.exc,
              data |-> IF r.exc = "none" THEN Put(d, "df", r.df) ELSE d,
              ops |-> {"exists(dataset_path)", "read_csv(dataset_path)"}]

\* OpenCsvHandler.handle before super().handle(data)
OpenCsvWork(d, file) ==
    IF ~PathExists(file)
    THEN [exc |-> "FileNotFoundError", data |-> d, ops |-> {"exists(dataset_path)"}]
    ELSE LET r == ReadCsv(file)
         IN  [exc |-> r.exc,
              data |-> IF r.exc = "none" THEN Put(d, "df", r.df) ELSE d,
              ops |-> {"exists(dataset_path)", "read_csv(dataset_path)"}]

\* CleanDataWork without its check of data.get("df")
CleanDataWork_NoCheck(d) ==
    IF Get(d, "df") = None
    THEN [exc |-> "none", data |-> d]
    ELSE LET r == CleanFrame(Get(d, "df"))
         IN  [exc |-> r.exc, data |-> Put(d, "df", r.df)]

\* CleanDataWork storing the None an inplace call returns
CleanDataWork_StoresNone(d) ==
    IF Get(d, "df") = None
    THEN [exc |-> "ValueError", data |-> d]
    ELSE LET r == CleanFrame(Get(d, "df"))
         IN  [exc |-> r.exc, data |-> Put(d, "df", IF r.exc = "none" THEN None ELSE r.df)]

\* CleanDataHandler.handle before super().handle(data); drop_duplicates and
\* fillna change the DataFrame the dict holds, also when the loop raises
CleanDataWork(d) ==
    IF Get(d, "df") = None
    THEN [exc |-> "ValueError", data |-> d]
    ELSE LET r == CleanFrame(Get(d, "df"))
         IN  [exc |-> r.exc, data |-> Put(d, "df", r.df)]

\* SweetvizHandler.handle before super().handle(data); `ok` is whether
\* sv.analyze and show_html get through the DataFrame
SweetvizWork(d, f, ok) ==
    IF Get(d, "df") = None
    THEN [exc |-> "ValueError", fs |-> f, ops |-> {}]
    ELSE IF ~ok
    THEN [exc |-> "SweetvizError", fs |-> f, ops |-> {}]
    ELSE [exc |-> "none", fs |-> [f EXCEPT !.report = TRUE],
          ops |-> {"show_html(report_path)"}]

----------------------------------------------------------------------------
(* Actions *)

OpenCsvHandler_handle ==
    /\ pc = "OpenCsvHandler"
    /\ invoked' = Append(invoked, "OpenCsvHandler")
    /\ LET r == OpenCsvWork(data, fs.input)
       IN  /\ data' = r.data
           /\ io' = io \cup r.ops
           /\ IF r.exc # "none"
              THEN Raise(r.exc) /\ UNCHANGED worked
              ELSE /\ worked' = Append(worked, "OpenCsvHandler")
                   /\ Handler_handle("OpenCsvHandler")
                   /\ UNCHANGED err
    /\ UNCHANGED <<chain, next_handler, fs, calls, entry, ctx0, prev>>

CleanDataHandler_handle ==
    /\ pc = "CleanDataHandler"
    /\ invoked' = Append(invoked, "CleanDataHandler")
    /\ LET r == CleanDataWork(data)
       IN  /\ data' = r.data
           /\ IF r.exc # "none"
              THEN Raise(r.exc) /\ UNCHANGED worked
              ELSE /\ worked' = Append(worked, "CleanDataHandler")
                   /\ Handler_handle("CleanDataHandler")
                   /\ UNCHANGED err
    /\ UNCHANGED <<chain, next_handler, fs, io, calls, entry, ctx0, prev>>

SweetvizHandler_handle ==
    /\ pc = "SweetvizHandler"
    /\ invoked' = Append(invoked, "SweetvizHandler")
    /\ \E ok \in BOOLEAN :
         LET r == SweetvizWork(data, fs, ok)
         IN  /\ fs' = r.fs
             /\ io' = io \cup r.ops
             /\ IF r.exc # "none"
                THEN Raise(r.exc) /\ UNCHANGED worked
                ELSE /\ worked' = Append(worked, "SweetvizHandler")
                     /\ Handler_handle("SweetvizHandler")
                     /\ UNCHANGED err
    /\ UNCHANGED <<chain, next_handler, data, calls, entry, ctx0, prev>>

\* SweetvizHandler.__init__: the output directory is made if it is absent
SweetvizInitOps(f) ==
    {"exists(output_dir)"} \cup (IF f.outdir THEN {} ELSE {"makedirs(output_dir)"})

\* BuiltLinks with a set_next that returns self
BuiltLinks_SetNextReturnsSelf ==
    set_next(set_next(NoLinks, "OpenCsvHandler", "CleanDataHandler"),
             "OpenCsvHandler", "SweetvizHandler")

\* the links EDAFlow.build_chain makes
BuiltLinks ==
    set_next(set_next(NoLinks, "OpenCsvHandler", "CleanDataHandler"),
             "CleanDataHandler", "SweetvizHandler")

\* EDAFlow.build_chain, between two calls of the client
build_chain ==
    /\ pc \notin Handlers
    /\ chain' = "OpenCsvHandler"
    /\ next_handler' = BuiltLinks
    /\ io' = io \cup SweetvizInitOps(fs)
    /\ fs' = [fs EXCEPT !.outdir = TRUE]
    /\ UNCHANGED <<data, pc, err, invoked, worked, calls, entry, ctx0, prev>>

\* ChainIsNone with the check left out
ChainIsNone_Never(c) == FALSE

\* `if self.chain is None` of EDAFlow.execute
ChainIsNone(c) == c = NoHandler

\* EDAFlow.execute up to the call of self.chain.handle(data={})
execute ==
    /\ pc \notin Handlers
    /\ calls < MaxCalls
    /\ calls' = calls + 1
    /\ IF ChainIsNone(chain)
       THEN /\ Raise("RuntimeError")
            /\ UNCHANGED <<data, invoked, worked, entry, ctx0>>
       ELSE /\ data' = EmptyDict
            /\ ctx0' = EmptyDict
            /\ entry' = chain
            /\ pc' = chain
            /\ err' = "none"
            /\ invoked' = <<>>
            /\ worked' = <<>>
    /\ UNCHANGED <<chain, next_handler, fs, io, prev>>

\* the client of a single handler calls handle() again with the dict the
\* last call returned
handle_again ==
    /\ pc = "returned"
    /\ calls < MaxCalls
    /\ calls' = calls + 1
    /\ prev' = data
    /\ ctx0' = data
    /\ pc' = entry
    /\ invoked' = <<>>
    /\ worked' = <<>>
    /\ UNCHANGED <<chain, next_handler, fs, data, err, io, entry>>

----------------------------------------------------------------------------
(* Inputs *)

\* fields of the x and y columns of the input file
XFields == {"", "1", "2", "a"}
YFields == {"", "1"}

CsvLines ==
    UNION {[1..len -> {[c \in Cols |-> IF c = "x" THEN f[1] ELSE f[2]] :
                          f \in XFields \X YFields}] : len \in 0..MaxCsvRows}

\* the file at datasets_dir/file_name: absent, of zero bytes, or a header
\* line and data lines
InputFiles ==
    {[exists |-> FALSE, header |-> FALSE, lines |-> <<>>],
     [exists |-> TRUE, header |-> FALSE, lines |-> <<>>]}
    \cup {[exists |-> TRUE, header |-> TRUE, lines |-> l] : l \in CsvLines}

\* cells of a DataFrame handed to a handler directly, by dtype of column x;
\* column y is float64
XCells(dtype) ==
    IF dtype = "object" THEN {NaN, Str("a"), Str("b")}
    ELSE {NaN, Num(2), Num(4)}
YCells == {NaN, Num(2)}

Frames ==
    UNION {{DataFrame([c \in Cols |-> IF c = "x" THEN dt ELSE "float64"], rows) :
               rows \in UNION {[1..len -> {[c \in Cols |-> IF c = "x" THEN f[1] ELSE f[2]] :
                                              f \in XCells(dt) \X YCells}] :
                                  len \in 0..MaxRows}} :
           dt \in {"object", "float64"}}

\* dicts handed to a handler directly: without "df", with None, with a frame
Contexts == {EmptyDict, Put(EmptyDict, "df", None)} \cup {Put(EmptyDict, "df", f) : f \in Frames}

----------------------------------------------------------------------------
(* Specifications *)

\* EDAFlow(config) over any input file and output directory
Init ==
    /\ chain = NoHandler
    /\ next_handler = NoLinks
    /\ \E file \in InputFiles, outdir \in BOOLEAN, report \in BOOLEAN :
         /\ report => outdir
         /\ fs = [input |-> file, outdir |-> outdir, report |-> report]
    /\ data = EmptyDict
    /\ pc = "idle"
    /\ err = "none"
    /\ invoked = <<>>
    /\ worked = <<>>
    /\ io = {}
    /\ calls = 0
    /\ entry = NoHandler
    /\ ctx0 = EmptyDict
    /\ prev = EmptyDict

Next ==
    \/ build_chain
    \/ execute
    \/ OpenCsvHandler_handle
    \/ CleanDataHandler_handle
    \/ SweetvizHandler_handle

Spec == Init /\ [][Next]_vars

\* CleanDataHandler or SweetvizHandler, constructed and linked as build_chain
\* links them, and its handle() called with any dict
StageInit ==
    /\ chain = NoHandler
    /\ next_handler = BuiltLinks
    /\ fs = [input |-> [exists |-> FALSE, header |-> FALSE, lines |-> <<>>],
             outdir |-> TRUE, report |-> FALSE]
    /\ data \in Contexts
    /\ entry \in {"CleanDataHandler", "SweetvizHandler"}
    /\ pc = entry
    /\ err = "none"
    /\ invoked = <<>>
    /\ worked = <<>>
    /\ io = {}
    /\ calls = 1
    /\ ctx0 = data
    /\ prev = EmptyDict

StageNext ==
    \/ CleanDataHandler_handle
    \/ SweetvizHandler_handle
    \/ handle_again

StageSpec == StageInit /\ [][StageNext]_vars

----------------------------------------------------------------------------
(* Vocabulary of the properties *)

Range(q) == {q[i] : i \in DOMAIN q}
IsPrefix(p, q) == Len(p) <= Len(q) /\ \A i \in DOMAIN p : p[i] = q[i]
StageOrder == <<"OpenCsvHandler", "CleanDataHandler", "SweetvizHandler">>

\* a call of execute() on a built chain has started
RunStarted == entry = "OpenCsvHandler"
\* the clean stage, called directly, has completed its own work in this call
CleanCompleted == entry = "CleanDataHandler" /\ "CleanDataHandler" \in Range(worked)
\* the rows the clean stage was handed, after its deduplication
DedupedInput == DropDuplicates(ctx0["df"].rows)
OutRows == data["df"].rows

\* v is the k-th smallest of the numbers of the cells of nn
IsKthSmallest(nn, k, v) ==
    /\ \E i \in DOMAIN nn : nn[i].n = v
    /\ Cardinality({i \in DOMAIN nn : nn[i].n < v}) < k
    /\ k <= Cardinality({i \in DOMAIN nn : nn[i].n <= v})

\* m is the median of the non-missing cells nn: the middle value of an odd
\* count, the mean of the two middle values of an even count, and missing
\* when nn is empty
IsMedianOf(nn, m) ==
    IF Len(nn) = 0 THEN m = NaN
    ELSE IF Len(nn) % 2 = 1
         THEN m.kind = "num" /\ IsKthSmallest(nn, (Len(nn) + 1) \div 2, m.n)
         ELSE /\ m.kind = "num"
              /\ \E lo, hi \in {nn[i].n : i \in DOMAIN nn} :
                   /\ IsKthSmallest(nn, Len(nn) \div 2, lo)
                   /\ IsKthSmallest(nn, Len(nn) \div 2 + 1, hi)
                   /\ 2 * m.n = lo + hi

\* the values that occur most often among the non-missing cells nn
MostFrequent(nn) ==
    {v \in Range(nn) : \A w \in Range(nn) : ValueCount(nn, w) <= ValueCount(nn, v)}

\* column c of the output is column c of the deduplicated input with every
\* missing entry replaced by v and every other entry as it was
FilledWith(c, v) ==
    /\ Len(OutRows) = Len(DedupedInput)
    /\ \A i \in DOMAIN OutRows :
         OutRows[i][c] = IF DedupedInput[i][c] = NaN THEN v ELSE DedupedInput[i][c]

----------------------------------------------------------------------------
(* Properties *)

\* C1: when the input file does not exist, a run of the built chain ends in
\* the FileNotFoundError of the load stage, the clean and report stages are
\* never entered and do no work, and the report file is never written.
C1_MissingFileFails ==
    /\ [](~fs.input.exists =>
            /\ pc \notin {"CleanDataHandler", "SweetvizHandler", "returned"}
            /\ worked = <<>>
            /\ "show_html(report_path)" \notin io
            /\ (RunStarted /\ pc = "raised" =>
                    err = "FileNotFoundError" /\ invoked = <<"OpenCsvHandler">>))
    /\ [][~fs.input.exists => fs'.report = fs.report]_vars

C1_Witness ==
    ~fs.input.exists /\ RunStarted /\ pc = "raised" /\ err = "FileNotFoundError"

\* C2: execute() on a runner whose chain is None raises RuntimeError and
\* touches nothing: no handler is entered, the dict and the file system stay
\* as they were and no file-system operation is performed.
C2_ChainNotBuilt ==
    /\ [](chain = NoHandler => invoked = <<>> /\ worked = <<>> /\ io = {})
    /\ [][chain = NoHandler /\ calls' # calls =>
            /\ err' = "RuntimeError" /\ pc' = "raised"
            /\ (UNCHANGED <<chain, fs, io, data, invoked, worked>>)]_vars

C2_Witness == chain = NoHandler /\ err = "RuntimeError" /\ pc = "raised" /\ calls = 1

\* C3: after the clean stage has completed, no cell of the table in the
\* dict is missing.
C3_NoMissingValues ==
    CleanCompleted =>
        \A i \in DOMAIN OutRows : \A c \in Cols : OutRows[i][c] # NaN

\* C4: after the clean stage has completed, no two rows of the table in the
\* dict are equal.
C4_NoDuplicateRows ==
    CleanCompleted =>
        \A i, j \in DOMAIN OutRows : i # j => OutRows[i] # OutRows[j]

\* C5: the clean stage called on the dict it returned leaves the table as
\* it was.
C5_Idempotent ==
    CleanCompleted /\ calls >= 2 => data["df"] = prev["df"]

\* C6, as claimed: an object column with missing entries is filled with
\* the most frequent value that occurs first in the column.
C6_ModeFirstEncountered ==
    CleanCompleted =>
        \A c \in Cols :
            LET col == Column(DedupedInput, c)
                nn == DropNa(col)
            IN  ctx0["df"].dtypes[c] = "object" /\ AnyNull(col) =>
                    \E k \in DOMAIN nn :
                        /\ nn[k] \in MostFrequent(nn)
                        /\ \A j \in 1..(k-1) : nn[j] \notin MostFrequent(nn)
                        /\ FilledWith(c, nn[k])

\* C6, amended: an object column with missing entries is filled with the
\* least, in sort order, of its most frequent values.
C6_ModeSmallest ==
    CleanCompleted =>
        \A c \in Cols :
            LET col == Column(DedupedInput, c)
                nn == DropNa(col)
            IN  ctx0["df"].dtypes[c] = "object" /\ AnyNull(col) =>
                    \E v \in MostFrequent(nn) :
                        /\ \A w \in MostFrequent(nn) : SortKey(v) <= SortKey(w)
                        /\ FilledWith(c, v)

\* a tie in column x, whose first value is not its least, has been filled
C6_Witness ==
    /\ CleanCompleted
    /\ calls = 1
    /\ ctx0["df"].dtypes["x"] = "object"
    /\ LET nn == DropNa(Column(DedupedInput, "x"))
       IN  /\ AnyNull(Column(DedupedInput, "x"))
           /\ Cardinality(MostFrequent(nn)) > 1
           /\ \E w \in MostFrequent(nn) : SortKey(w) < SortKey(nn[1])

\* C7: a column that is not of dtype object and has missing entries is
\* filled with the median of its non-missing values after deduplication
\* (missing again when there is none); the other entries are unchanged.
C7_MedianFill ==
    CleanCompleted =>
        \A c \in Cols :
            LET col == Column(DedupedInput, c)
            IN  ctx0["df"].dtypes[c] # "object" /\ AnyNull(col) =>
                    \E m \in {OutRows[i][c] : i \in DOMAIN OutRows} :
                        IsMedianOf(DropNa(col), m) /\ FilledWith(c, m)

\* an even count of values was filled with the mean of the two middle ones,
\* here the 1.5 between 1 and 2
C7_Witness ==
    /\ CleanCompleted
    /\ calls = 1
    /\ \E i \in DOMAIN OutRows : DedupedInput[i]["x"] = NaN /\ OutRows[i]["x"] = Num(3)

\* C8: the stages work in the order load, clean, report, each at most once;
\* a finished run has either completed all three or stopped at the first
\* stage that raised, and after a raise nothing more is entered or done.
C8_StageOrder ==
    /\ [](RunStarted =>
            /\ IsPrefix(worked, StageOrder)
            /\ IsPrefix(invoked, StageOrder)
            /\ (pc \in Handlers => invoked = worked /\ pc = StageOrder[Len(worked) + 1])
            /\ (pc = "returned" => worked = StageOrder /\ invoked = StageOrder
                                   /\ err = "none")
            /\ (pc = "raised" => err # "none" /\ Len(worked) < Len(StageOrder)
                                 /\ Len(invoked) = Len(worked) + 1))
    /\ [][(pc = "raised" \/ pc = "returned") /\ calls' = calls =>
            (UNCHANGED <<pc, err, worked, invoked, data>>)]_vars

C8_Witness == RunStarted /\ pc = "returned" /\ worked = StageOrder

\* C9: the clean or report stage, handed a dict without "df" or with None
\* under it, raises ValueError with the dict as it was, no report written,
\* no file-system operation performed and no other handler entered.
C9_MissingInput ==
    Get(ctx0, "df") = None /\ pc # entry =>
        /\ pc = "raised" /\ err = "ValueError"
        /\ data = ctx0
        /\ ~fs.report /\ io = {}
        /\ invoked = <<entry>> /\ worked = <<>>

C9_Witness ==
    /\ entry = "CleanDataHandler" /\ next_handler[entry] = "SweetvizHandler"
    /\ Get(ctx0, "df") = None /\ "df" \in DOMAIN ctx0
    /\ pc = "raised" /\ err = "ValueError"

\* C10: a run of the built chain starts with the empty dict, no key leaves
\* it, "df" holds a table from the moment the load stage has worked,
\* and no stage raises the ValueError of a missing table.
C10_ContextInvariant ==
    /\ [][chain # NoHandler /\ calls' # calls => data' = EmptyDict]_vars
    /\ [][calls' = calls => DOMAIN data \subseteq DOMAIN data']_vars
    /\ [](RunStarted /\ "OpenCsvHandler" \in Range(worked) => Get(data, "df") # None)
    /\ [](RunStarted => err # "ValueError")

C10_Witness ==
    RunStarted /\ pc = "SweetvizHandler" /\ Get(data, "df") # None

====
